---------------------------- MODULE Spec2Model ----------------------------
(***************************************************************************)
(* Model of the authenticated request lifecycle of src/main.py:            *)
(* GoogleReaderClient (_login, _get_token, ensure_authenticated,           *)
(* make_request) and the MCP tools that marshal their arguments into a     *)
(* make_request call.                                                      *)
(*                                                                         *)
(* Python strings whose content the code inspects (login body, token body, *)
(* API response body and content type, integer-typed arguments) are        *)
(* sequences of one-character strings, so that strip / split / startswith  *)
(* / int / html.unescape / json.loads / ET.fromstring are computed, not    *)
(* assumed.                                                                *)
(* Optional[str] attributes are None == <<>> or <<value>>.                 *)
(***************************************************************************)
EXTENDS Integers, Sequences, FiniteSets, TLC

VARIABLES
    sid,      \* client.sid    (main.py:24)
    auth,     \* client.auth   (main.py:25)
    token,    \* client.token  (main.py:26)
    pc,       \* position of the tool call in progress ("idle" when none)
    ctx,      \* which caller of _get_token is active: "ensure" (line 68) or "retry" (line 121)
    call,     \* the tool call in progress: the tool, its integer-typed arguments, the
              \* kwargs it built, and make_request's locals method, endpoint, url, kwargs
    log,      \* HTTP exchanges (request and response) of the call in progress, in order
              \* (under ConcurrentSpec: of all the calls issued together)
    pre,      \* <<sid, auth, token>> when the call in progress was invoked
    prev,     \* how the call before the one in progress ended (see Outcome)
    result,   \* outcome of the call once it has finished
    pending   \* how many calls issued together on the event loop have yet to start
              \* (0 when calls are issued one at a time)

vars == <<sid, auth, token, pc, ctx, call, log, pre, prev, result, pending>>

-----------------------------------------------------------------------------
(* Python values *)

None == <<>>
Some(v) == <<v>>

\* Python truthiness of an Optional[str]: None and '' are falsy
Truthy(x) == x # None /\ x[1] # <<>>

\* str(x) as used by f-strings
PyStr(x) == IF x = None THEN <<"N", "o", "n", "e">> ELSE x[1]

Whitespace == {" ", "\n", "\t", "\r"}

RECURSIVE LStrip(_)
LStrip(s) == IF s # <<>> /\ Head(s) \in Whitespace THEN LStrip(Tail(s)) ELSE s

RECURSIVE RStrip(_)
RStrip(s) ==
    IF s # <<>> /\ s[Len(s)] \in Whitespace THEN RStrip(SubSeq(s, 1, Len(s) - 1)) ELSE s

\* str.strip()
Strip(s) == RStrip(LStrip(s))

\* str.split(sep) for a one-character separator
RECURSIVE Split(_, _)
Split(s, sep) ==
    IF \A i \in 1..Len(s) : s[i] # sep
    THEN <<s>>
    ELSE LET i == CHOOSE j \in 1..Len(s) :
                      s[j] = sep /\ \A k \in 1..(j - 1) : s[k] # sep
         IN  <<SubSeq(s, 1, i - 1)>> \o Split(SubSeq(s, i + 1, Len(s)), sep)

\* str.startswith(prefix)
StartsWith(s, prefix) ==
    Len(s) >= Len(prefix) /\ SubSeq(s, 1, Len(prefix)) = prefix

\* [x for x in xs if x.startswith(prefix)]
RECURSIVE LinesWith(_, _)
LinesWith(xs, prefix) ==
    IF xs = <<>> THEN <<>>
    ELSE (IF StartsWith(Head(xs), prefix) THEN <<Head(xs)>> ELSE <<>>)
         \o LinesWith(Tail(xs), prefix)

EmptyDict == [k \in {} |-> 0]

\* d[k] = v
DictSet(d, k, v) == (k :> v) @@ d

\* d.setdefault(k, v)
DictSetDefault(d, k, v) == IF k \in DOMAIN d THEN d ELSE d @@ (k :> v)

-----------------------------------------------------------------------------
(* What the remote service can answer *)

\* A requests call either raises at transport level (no response), or yields a
\* response whose raise_for_status() raises (status "error") or not ("ok").
SID_EQ == <<"S", "I", "D", "=">>
AUTH_EQ == <<"A", "u", "t", "h", "=">>

\* "SID=s\nAuth=a\n"
BodyBoth == SID_EQ \o <<"s", "\n">> \o AUTH_EQ \o <<"a", "\n">>
\* "Auth=b=c\nLSID=x\nSID=t": other order, an extra line, a value holding '='
BodyReordered ==
    AUTH_EQ \o <<"b", "=", "c", "\n", "L">> \o SID_EQ \o <<"x", "\n">> \o SID_EQ \o <<"t">>
\* "SID=s\n"
BodySidOnly == SID_EQ \o <<"s", "\n">>
\* "Auth=a"
BodyAuthOnly == AUTH_EQ \o <<"a">>
\* "Error=B\n"
BodyNeither == <<"E", "r", "r", "o", "r", "=", "B", "\n">>
\* "SID=s\nAuth=\n"
BodyEmptyAuth == SID_EQ \o <<"s", "\n">> \o AUTH_EQ \o <<"\n">>

LoginBodies ==
    {BodyBoth, BodyReordered, BodySidOnly, BodyAuthOnly, BodyNeither, BodyEmptyAuth, <<>>}

LoginResponses ==
    {[status |-> s, badToken |-> "absent", text |-> <<>>] : s \in {"transport", "error"}}
    \cup {[status |-> "ok", badToken |-> "absent", text |-> b] : b \in LoginBodies}

\* "x", "y\n", "\n"
TokenBodies == {<<"x">>, <<"y", "\n">>, <<"\n">>}

TokenResponses ==
    {[status |-> s, badToken |-> "absent", text |-> <<>>] : s \in {"transport", "error"}}
    \cup {[status |-> "ok", badToken |-> "absent", text |-> b] : b \in TokenBodies}

\* value of the response header X-Reader-Google-Bad-Token
BadTokenHeaders == {"absent", "true", "false"}

\* values of the response header Content-Type: 'application/json', 'text/xml',
\* 'text/html', and None for a response without the header
JsonCT ==
    <<"a", "p", "p", "l", "i", "c", "a", "t", "i", "o", "n", "/", "j", "s", "o", "n">>
XmlCT == <<"t", "e", "x", "t", "/", "x", "m", "l">>
HtmlCT == <<"t", "e", "x", "t", "/", "h", "t", "m", "l">>

\* '{&quot;a&quot;:[1]}': JSON once unescaped
BodyJson ==
    <<"{", "&", "q", "u", "o", "t", ";", "a", "&", "q", "u", "o", "t", ";", ":", "[",
      "1", "]", "}">>
\* '[1': not JSON
BodyBadJson == <<"[", "1">>
\* '&lt;a&gt;ok&lt;/a&gt;': XML once unescaped
BodyXml ==
    <<"&", "l", "t", ";", "a", "&", "g", "t", ";", "o", "k", "&", "l", "t", ";", "/",
      "a", "&", "g", "t", ";">>
\* '<a>1 &lt; 2</a>': XML as sent, no longer well-formed once unescaped
BodyBadXml ==
    <<"<", "a", ">", "1", " ", "&", "l", "t", ";", " ", "2", "<", "/", "a", ">">>
\* '<?xml version="1.0" encoding="x"?><a/>': XML declaring an encoding named x
BodyXmlEncoding ==
    <<"<", "?", "x", "m", "l", " ", "v", "e", "r", "s", "i", "o", "n", "=", "\"",
      "1", ".", "0", "\"", " ", "e", "n", "c", "o", "d", "i", "n", "g", "=", "\"",
      "x", "\"", "?", ">", "<", "a", "/", ">">>
\* 'x &amp;lt; y': text holding an escaped entity
BodyText == <<"x", " ", "&", "a", "m", "p", ";", "l", "t", ";", " ", "y">>

\* the success responses: <<Content-Type, body>>
ApiBodies ==
    {<<Some(JsonCT), BodyJson>>, <<Some(JsonCT), BodyBadJson>>,
     <<Some(XmlCT), BodyXml>>, <<Some(XmlCT), BodyBadXml>>,
     <<Some(XmlCT), BodyXmlEncoding>>,
     <<Some(HtmlCT), BodyJson>>, <<None, BodyText>>}

\* A success response carries a Content-Type header (or none) and a body; the
\* body of a failed response is not read.
ApiResponses ==
    {[status |-> "transport", badToken |-> "absent", ctype |-> None, text |-> <<>>]}
    \cup {[status |-> "error", badToken |-> h, ctype |-> None, text |-> <<>>] :
             h \in BadTokenHeaders}
    \cup {[status |-> "ok", badToken |-> h, ctype |-> Some(JsonCT), text |-> BodyJson] :
             h \in {"absent", "true"}}

\* the same with every success response of ApiBodies
DecodeResponses ==
    ApiResponses
    \cup {[status |-> "ok", badToken |-> "absent", ctype |-> b[1], text |-> b[2]] :
             b \in ApiBodies}

\* the requests exception a failed call raises
Cause(r) == IF r.status = "transport" THEN "ConnectionError" ELSE "HTTPError"

-----------------------------------------------------------------------------
(* Outcomes of a tool call *)

\* the value a call returns: the kind of Python value and the value itself
Value(kind, v) == [kind |-> kind, v |-> v]

NoValue == Value("none", <<>>)

NoResult == [type |-> "none", msg |-> "", endpoint |-> None, cause |-> "", value |-> NoValue]

\* return v
Returned(v) ==
    [type |-> "return", msg |-> "", endpoint |-> None, cause |-> "", value |-> v]

\* raise ValueError(msg)
ValueError(msg) ==
    [type |-> "ValueError", msg |-> msg, endpoint |-> None, cause |-> "", value |-> NoValue]

\* raise Exception(f"{msg}: {e}")
WrappedError(msg, cause) ==
    [type |-> "Exception", msg |-> msg, endpoint |-> None, cause |-> cause,
     value |-> NoValue]

\* raise Exception(f"API request to {endpoint} failed: {e}")
RequestError(endpoint, cause) ==
    [type |-> "Exception", msg |-> "API request failed",
     endpoint |-> Some(IF endpoint = None THEN "None" ELSE endpoint[1]), cause |-> cause,
     value |-> NoValue]

\* an exception that leaves make_request as it was raised
RawError(cause) ==
    [type |-> cause, msg |-> "", endpoint |-> None, cause |-> cause, value |-> NoValue]

\* the error taxonomy: which kind of outcome r is
Outcome(r) ==
    IF r.type \in {"none", "return", "ValueError"} THEN r.type
    ELSE IF r.type # "Exception" THEN "raw"
    ELSE IF r.msg = "API request failed" THEN "RequestError"
    ELSE "AuthenticationError"

-----------------------------------------------------------------------------
(* GoogleReaderClient._login: parsing the login response *)

\* data = response.text.strip().split('\n')
LoginLines(text) == Split(Strip(text), "\n")

\* mutant of LoginSid: a missing SID= line yields '' instead of raising
LoginSid_DefaultEmpty(text) ==
    LET ls == LinesWith(LoginLines(text), SID_EQ)
    IN  IF ls = <<>> THEN Some(<<>>) ELSE Some(Split(ls[1], "=")[2])

\* [line for line in data if line.startswith('SID=')][0].split('=')[1];
\* None stands for the IndexError of [0]
LoginSid(text) ==
    LET ls == LinesWith(LoginLines(text), SID_EQ)
    IN  IF ls = <<>> THEN None ELSE Some(Split(ls[1], "=")[2])

\* [line for line in data if line.startswith('Auth=')][0].split('=')[1]
LoginAuth(text) ==
    LET ls == LinesWith(LoginLines(text), AUTH_EQ)
    IN  IF ls = <<>> THEN None ELSE Some(Split(ls[1], "=")[2])

\* self.token = response.text.strip()
TokenOf(text) == Some(Strip(text))

\* "GoogleLogin auth="
GoogleLoginAuth ==
    <<"G", "o", "o", "g", "l", "e", "L", "o", "g", "i", "n", " ", "a", "u", "t", "h", "=">>

\* f'GoogleLogin auth={self.auth}'
AuthHeader(a) == GoogleLoginAuth \o PyStr(a)

\* mutant of GetTokenEntry: every token fetch logs in first
GetTokenEntry_AlwaysLogin(a) == "login"

\* _get_token, line 51: if not self.auth: self._login()
GetTokenEntry(a) == IF ~Truthy(a) THEN "login" ELSE "token"

\* mutant of EnsureEntry: the cached token is not consulted
EnsureEntry_AlwaysGetToken(t, a) == GetTokenEntry(a)

\* ensure_authenticated, line 67: if not self.token: self._get_token()
EnsureEntry(t, a) == IF ~Truthy(t) THEN GetTokenEntry(a) ELSE "send"

\* a request together with the response r it got, as the log records them
Exchange(req, r) == req @@ [resp |-> r]

\* the HTTP requests
LoginRequest ==
    [kind |-> "login", method |-> "POST", url |-> <<"BASE", "/accounts/ClientLogin">>,
     headers |-> EmptyDict, cookies |-> EmptyDict, params |-> EmptyDict,
     data |-> [Email |-> "EMAIL", Passwd |-> "PASSWD"]]

TokenRequest(a) ==
    [kind |-> "token", method |-> "GET", url |-> <<"BASE", "/reader/api/0/token">>,
     headers |-> [Authorization |-> AuthHeader(a)], cookies |-> EmptyDict,
     params |-> EmptyDict, data |-> EmptyDict]

-----------------------------------------------------------------------------
(* Arguments of the tools: Union[int, str] and Optional[...] values *)

IntArg(n) == [t |-> "int", n |-> n, s |-> <<>>]
StrArg(s) == [t |-> "str", n |-> 0, s |-> s]
NoneArg == [t |-> "none", n |-> 0, s |-> <<>>]

Digits == <<"0", "1", "2", "3", "4", "5", "6", "7", "8", "9">>

IsDigit(c) == \E i \in 1..10 : Digits[i] = c

DigitValue(c) == (CHOOSE i \in 1..10 : Digits[i] = c) - 1

\* value of a digit string in which '_' may separate digits
RECURSIVE DigitsValue(_, _)
DigitsValue(s, acc) ==
    IF s = <<>> THEN acc
    ELSE IF Head(s) = "_" THEN DigitsValue(Tail(s), acc)
    ELSE DigitsValue(Tail(s), 10 * acc + DigitValue(Head(s)))

\* the digit part int() accepts: digits, single underscores only between digits
IsDigitString(s) ==
    /\ s # <<>>
    /\ \A i \in 1..Len(s) : IsDigit(s[i]) \/ s[i] = "_"
    /\ IsDigit(s[1]) /\ IsDigit(s[Len(s)])
    /\ \A i \in 1..(Len(s) - 1) : ~(s[i] = "_" /\ s[i + 1] = "_")

\* int(s) for a str: surrounding whitespace stripped, one optional sign
IntOfStr(s) ==
    LET b == Strip(s)
        signed == b # <<>> /\ Head(b) \in {"+", "-"}
        d == IF signed THEN Tail(b) ELSE b
    IN  IF IsDigitString(d)
        THEN [ok |-> TRUE,
              n |-> IF signed /\ Head(b) = "-" THEN 0 - DigitsValue(d, 0)
                    ELSE DigitsValue(d, 0)]
        ELSE [ok |-> FALSE, n |-> 0]

\* int(a) inside try/except (ValueError, TypeError): ok is FALSE when it raises
PyInt(a) ==
    IF a.t = "int" THEN [ok |-> TRUE, n |-> a.n]
    ELSE IF a.t = "none" THEN [ok |-> FALSE, n |-> 0]
    ELSE IntOfStr(a.s)

\* "if x is not None: x = int(x)": an absent optional stays None and is fine
PyOptInt(a) == IF a.t = "none" THEN [ok |-> TRUE, n |-> 0] ELSE PyInt(a)

\* "if x:" on an Optional[int] after conversion
IntTruthy(a) == a.t # "none" /\ PyInt(a).n # 0

\* "if x:" on an Optional[str] argument (None == <<>> or <<value>>, value a TLA+ string)
StrTruthy(x) == x # None /\ x[1] # ""

-----------------------------------------------------------------------------
(* The tools: what each hands to client.make_request, or the error it raises *)

Raise(err) ==
    [raised |-> TRUE, error |-> err, method |-> "", endpoint |-> None,
     use_api_0_path |-> TRUE, full_url |-> None, kwargs |-> EmptyDict]

MakeRequest(method, endpoint, use_api_0_path, full_url, kwargs) ==
    [raised |-> FALSE, error |-> NoResult, method |-> method, endpoint |-> endpoint,
     use_api_0_path |-> use_api_0_path, full_url |-> full_url, kwargs |-> kwargs]

\* d[k] = v under "if cond:"
DictSetIf(cond, d, k, v) == IF cond THEN DictSet(d, k, v) ELSE d

add_subscription(feed_url, folder, title) ==
    LET d0 == [ac |-> "subscribe", s |-> <<"feed/", feed_url>>]
        d1 == DictSetIf(StrTruthy(folder), d0, "a", <<"user/-/label/", PyStr(folder)>>)
        d2 == DictSetIf(StrTruthy(title), d1, "t", PyStr(title))
    IN  MakeRequest("POST", Some("subscription/edit"), TRUE, None, "data" :> d2)

get_subscription_list(output_format) ==
    MakeRequest("GET", Some("subscription/list"), TRUE, None,
                "params" :> [output |-> output_format])

get_user_info == MakeRequest("GET", Some("user-info"), TRUE, None, EmptyDict)

mark_feed_as_read(feed_url, timestamp) ==
    IF ~PyInt(timestamp).ok THEN Raise(ValueError("Timestamp must be a valid integer."))
    ELSE MakeRequest("POST", Some("mark-all-as-read"), TRUE, None,
             "data" :> [s |-> <<"feed/", feed_url>>, ts |-> PyInt(timestamp).n])

mark_folder_as_read(folder_name, timestamp) ==
    IF ~PyInt(timestamp).ok THEN Raise(ValueError("Timestamp must be a valid integer."))
    ELSE MakeRequest("POST", Some("mark-all-as-read"), TRUE, None,
             "data" :> [t |-> folder_name, ts |-> PyInt(timestamp).n])

set_tag_sharing(tag_name, is_public) ==
    MakeRequest("POST", Some("tag/edit"), TRUE, None,
        ("data" :> [s |-> <<"user/-/label/", tag_name>>, t |-> tag_name,
                    pub |-> IF is_public THEN "true" ELSE "false"])
        @@ ("params" :> [client |-> "settings"]))

\* mutant of get_all_entries: older_than is converted outside the try block's test
get_all_entries_UncheckedOlder(count, sort_order, newer_than, older_than, exclude_target, continuation, output_format) ==
    IF ~(PyInt(count).ok /\ PyOptInt(newer_than).ok)
    THEN Raise(ValueError("count, newer_than, and older_than must be valid integers."))
    ELSE LET p0 == [output |-> output_format, n |-> PyInt(count).n]
             p1 == DictSetIf(IntTruthy(newer_than), p0, "t", PyInt(newer_than).n)
             p2 == DictSetIf(IntTruthy(older_than), p1, "ot", PyInt(older_than).n)
         IN  MakeRequest("GET",
                 Some("stream/contents/user/-/state/com.google/reading-list"),
                 TRUE, None, "params" :> p2)

get_all_entries(count, sort_order, newer_than, older_than, exclude_target, continuation, output_format) ==
    IF ~(PyInt(count).ok /\ PyOptInt(newer_than).ok /\ PyOptInt(older_than).ok)
    THEN Raise(ValueError("count, newer_than, and older_than must be valid integers."))
    ELSE LET p0 == [output |-> output_format, n |-> PyInt(count).n]
             p1 == DictSetIf(StrTruthy(sort_order), p0, "r", PyStr(sort_order))
             p2 == DictSetIf(IntTruthy(newer_than), p1, "t", PyInt(newer_than).n)
             p3 == DictSetIf(IntTruthy(older_than), p2, "ot", PyInt(older_than).n)
             p4 == DictSetIf(StrTruthy(exclude_target), p3, "xt", PyStr(exclude_target))
             p5 == DictSetIf(StrTruthy(continuation), p4, "c", PyStr(continuation))
         IN  MakeRequest("GET",
                 Some("stream/contents/user/-/state/com.google/reading-list"),
                 TRUE, None, "params" :> p5)

get_starred_articles(count, output_format) ==
    IF ~PyInt(count).ok THEN Raise(ValueError("count must be a valid integer."))
    ELSE MakeRequest("GET", Some("stream/contents/user/-/state/com.google/starred"),
             TRUE, None, "params" :> [n |-> PyInt(count).n, output |-> output_format])

parse_feed_url(feed_url, count, exclude_target) ==
    IF ~PyInt(count).ok THEN Raise(ValueError("count must be a valid integer."))
    ELSE LET p0 == [n |-> PyInt(count).n]
             p1 == DictSetIf(StrTruthy(exclude_target), p0, "xt", PyStr(exclude_target))
         IN  MakeRequest("GET", None, TRUE,
                 Some(<<"BASE", "/reader/api/0/atom/feed/", feed_url>>), "params" :> p1)

freshapi_get_stream_item_ids(stream_id, count, sort_order, continuation, exclude_target, start_time, stop_time, filter_target) ==
    IF ~(PyInt(count).ok /\ PyOptInt(start_time).ok /\ PyOptInt(stop_time).ok)
    THEN Raise(ValueError("count, start_time, and stop_time must be valid integers."))
    ELSE LET p0 == [s |-> stream_id, n |-> PyInt(count).n]
             p1 == DictSetIf(StrTruthy(sort_order), p0, "r", PyStr(sort_order))
             p2 == DictSetIf(StrTruthy(continuation), p1, "c", PyStr(continuation))
             p3 == DictSetIf(StrTruthy(exclude_target), p2, "xt", PyStr(exclude_target))
             p4 == DictSetIf(IntTruthy(start_time), p3, "ot", PyInt(start_time).n)
             p5 == DictSetIf(IntTruthy(stop_time), p4, "nt", PyInt(stop_time).n)
             p6 == DictSetIf(StrTruthy(filter_target), p5, "it", PyStr(filter_target))
         IN  MakeRequest("GET", Some("stream/items/ids"), TRUE, None, "params" :> p6)

get_shared_entries(count) ==
    IF ~PyInt(count).ok THEN Raise(ValueError("count must be a valid integer."))
    ELSE MakeRequest("GET", Some("reader/atom/user/-/state/com.google/broadcast"),
             TRUE, None, "params" :> [n |-> PyInt(count).n])

search_greader_categories(search_term) ==
    MakeRequest("GET", Some("directory/search"), FALSE, None,
                "params" :> [q |-> search_term])

get_item_contents(item_ids, output_format) ==
    MakeRequest("POST", Some("stream/items/contents"), TRUE, None,
        ("data" :> [i |-> item_ids]) @@ ("params" :> [output |-> output_format]))

-----------------------------------------------------------------------------
(* GoogleReaderClient.make_request: target and decoration *)

\* lines 74-84; None stands for the ValueError of line 84
ResolveUrl(endpoint, use_api_0_path, full_url) ==
    IF full_url # None /\ full_url[1] # <<>> THEN Some(full_url[1])
    ELSE IF endpoint # None /\ endpoint[1] # ""
         THEN IF use_api_0_path
              THEN Some(<<"BASE", "/reader/api/0/", endpoint[1]>>)
              ELSE Some(<<"BASE", "/reader/", endpoint[1]>>)
         ELSE None

\* kwargs.get(k, {})
KwGet(kwargs, k) == IF k \in DOMAIN kwargs THEN kwargs[k] ELSE EmptyDict

\* mutant of Decorate: params['client'] is assigned like params['T']
Decorate_ForceClient(kwargs, s, a, t) ==
    LET headers == DictSet(KwGet(kwargs, "headers"), "Authorization", AuthHeader(a))
        cookies == DictSet(KwGet(kwargs, "cookies"), "SID", s)
        params == DictSet(DictSet(KwGet(kwargs, "params"), "T", t),
                          "client", "fastmcp-server")
    IN  DictSet(DictSet(DictSet(kwargs, "headers", headers), "cookies", cookies),
                "params", params)

\* lines 86-98: the kwargs handed to requests.request
Decorate(kwargs, s, a, t) ==
    LET headers == DictSet(KwGet(kwargs, "headers"), "Authorization", AuthHeader(a))
        cookies == DictSet(KwGet(kwargs, "cookies"), "SID", s)
        params == DictSetDefault(DictSet(KwGet(kwargs, "params"), "T", t),
                                 "client", "fastmcp-server")
    IN  DictSet(DictSet(DictSet(kwargs, "headers", headers), "cookies", cookies),
                "params", params)

\* mutant of Refresh: the resend goes out with the parameters of the first attempt
Refresh_StaleToken(kwargs, t) == kwargs

\* lines 122-123: params['T'] = self.token; kwargs["params"] = params
Refresh(kwargs, t) == DictSet(kwargs, "params", DictSet(kwargs["params"], "T", t))

\* mutant of ShouldRetry: any HTTP error status is taken for an expired token
ShouldRetry_AnyHttpError(e) == e.status = "error"

\* line 119: e.response is not None and
\* e.response.headers.get('X-Reader-Google-Bad-Token') == 'true'
ShouldRetry(e) == e.status = "error" /\ e.badToken = "true"

\* requests.request(method, url, **kwargs) as the log records it
ApiRequest(method, url, kwargs) ==
    [kind |-> "api", method |-> method, url |-> url,
     headers |-> kwargs["headers"], cookies |-> kwargs["cookies"],
     params |-> kwargs["params"], data |-> KwGet(kwargs, "data")]

NoCall ==
    [tool |-> "", intargs |-> <<>>, given |-> EmptyDict,
     method |-> "", endpoint |-> None, url |-> None, kwargs |-> EmptyDict]

-----------------------------------------------------------------------------
(* GoogleReaderClient.make_request: decoding a success response *)

\* sub in s
Contains(sub, s) ==
    \E i \in 1..(Len(s) - Len(sub) + 1) : SubSeq(s, i, i + Len(sub) - 1) = sub

\* length of the longest prefix of s made of characters of set
RECURSIVE RunLen(_, _)
RunLen(s, set) == IF s = <<>> \/ Head(s) \notin set THEN 0 ELSE 1 + RunLen(Tail(s), set)

\* position of the first c in s (0 when there is none)
IndexOf(s, c) ==
    IF \A i \in 1..Len(s) : s[i] # c THEN 0
    ELSE CHOOSE i \in 1..Len(s) : s[i] = c /\ \A k \in 1..(i - 1) : s[k] # c

\* html.entities.html5, the entries for amp, lt, gt and quot (with and without ';')
Html5 ==
    {<<<<"a", "m", "p", ";">>, "&">>, <<<<"a", "m", "p">>, "&">>,
     <<<<"l", "t", ";">>, "<">>, <<<<"l", "t">>, "<">>,
     <<<<"g", "t", ";">>, ">">>, <<<<"g", "t">>, ">">>,
     <<<<"q", "u", "o", "t", ";">>, "\"">>, <<<<"q", "u", "o", "t">>, "\"">>}

InHtml5(name) == \E e \in Html5 : e[1] = name

Html5Char(name) == (CHOOSE e \in Html5 : e[1] = name)[2]

\* characters that end the name of a character reference: [^\t\n\f <&#;]
RefStop == {"\t", "\n", "\f", " ", "<", "&", "#", ";"}

\* the name matched after an '&': up to 32 name characters and an optional ';'
\* (numeric references are not modelled; no body of ApiBodies holds '&#')
CharRef(t) ==
    LET all == CHOOSE n \in 0..Len(t) :
                   /\ \A i \in 1..n : t[i] \notin RefStop
                   /\ n = Len(t) \/ t[n + 1] \in RefStop
        n == IF all > 32 THEN 32 ELSE all
    IN  IF n = 0 THEN <<>>
        ELSE IF n < Len(t) /\ t[n + 1] = ";" THEN SubSeq(t, 1, n + 1)
        ELSE SubSeq(t, 1, n)

\* html._replace_charref for a named reference: the entity, else the longest
\* prefix that is an entity followed by the rest, else the text as it was
ReplaceCharref(ref) ==
    IF InHtml5(ref) THEN <<Html5Char(ref)>>
    ELSE LET ps == {x \in 2..(Len(ref) - 1) : InHtml5(SubSeq(ref, 1, x))}
         IN  IF ps = {} THEN <<"&">> \o ref
             ELSE LET x == CHOOSE y \in ps : \A z \in ps : z <= y
                  IN  <<Html5Char(SubSeq(ref, 1, x))>> \o SubSeq(ref, x + 1, Len(ref))

\* html.unescape(s): one pass, what a reference was replaced by is not rescanned
RECURSIVE Unescape(_)
Unescape(s) ==
    IF s = <<>> THEN <<>>
    ELSE IF Head(s) # "&" THEN <<Head(s)>> \o Unescape(Tail(s))
    ELSE LET ref == CharRef(Tail(s))
         IN  IF ref = <<>> THEN <<"&">> \o Unescape(Tail(s))
             ELSE ReplaceCharref(ref) \o Unescape(SubSeq(s, Len(ref) + 2, Len(s)))

\* A decoded JSON value: t is "int", "str", "lit" (true, false, null), "arr" (items
\* the elements) or "obj" (items the <<key, value>> members in document order)
JNode(t, n, s, items) == [t |-> t, n |-> n, s |-> s, items |-> items]

JFail == [ok |-> FALSE, val |-> JNode("lit", 0, <<>>, <<>>), rest |-> <<>>]

JOk(val, rest) == [ok |-> TRUE, val |-> val, rest |-> rest]

DigitSet == {Digits[i] : i \in 1..10}

\* an integer: '-'? then 0 or a run of digits not starting with 0
\* (fractions and exponents are not modelled; no body of ApiBodies holds one)
JsonNumber(s) ==
    LET neg == s # <<>> /\ Head(s) = "-"
        d == IF neg THEN Tail(s) ELSE s
        run == RunLen(d, DigitSet)
        n == IF run > 0 /\ d[1] = "0" THEN 1 ELSE run
        v == DigitsValue(SubSeq(d, 1, n), 0)
    IN  IF n = 0 THEN JFail
        ELSE JOk(JNode("int", IF neg THEN 0 - v ELSE v, <<>>, <<>>),
                 SubSeq(d, n + 1, Len(d)))

\* a string, s being what follows its opening quote: up to the closing quote, no
\* control character inside (escapes are not modelled; no body holds a backslash)
JsonString(s) ==
    LET q == IndexOf(s, "\"")
    IN  IF q = 0 \/ \E i \in 1..(q - 1) : s[i] \in {"\n", "\t", "\r"} THEN JFail
        ELSE JOk(JNode("str", 0, SubSeq(s, 1, q - 1), <<>>), SubSeq(s, q + 1, Len(s)))

JsonLiterals == {<<"t", "r", "u", "e">>, <<"f", "a", "l", "s", "e">>, <<"n", "u", "l", "l">>}

RECURSIVE JsonValue(_)
RECURSIVE JsonItems(_, _)
RECURSIVE JsonMembers(_, _)

\* one value at the head of s, leading whitespace skipped
JsonValue(s0) ==
    LET s == LStrip(s0)
    IN  IF s = <<>> THEN JFail
        ELSE IF Head(s) = "["
        THEN LET t == LStrip(Tail(s))
             IN  IF t # <<>> /\ Head(t) = "]" THEN JOk(JNode("arr", 0, <<>>, <<>>), Tail(t))
                 ELSE JsonItems(t, <<>>)
        ELSE IF Head(s) = "{"
        THEN LET t == LStrip(Tail(s))
             IN  IF t # <<>> /\ Head(t) = "}" THEN JOk(JNode("obj", 0, <<>>, <<>>), Tail(t))
                 ELSE JsonMembers(t, <<>>)
        ELSE IF Head(s) = "\"" THEN JsonString(Tail(s))
        ELSE IF \E l \in JsonLiterals : StartsWith(s, l)
        THEN LET l == CHOOSE x \in JsonLiterals : StartsWith(s, x)
             IN  JOk(JNode("lit", 0, l, <<>>), SubSeq(s, Len(l) + 1, Len(s)))
        ELSE JsonNumber(s)

\* the elements of an array after '[', acc the ones decoded so far
JsonItems(s, acc) ==
    LET v == JsonValue(s)
        t == LStrip(v.rest)
    IN  IF ~v.ok \/ t = <<>> THEN JFail
        ELSE IF Head(t) = "," THEN JsonItems(Tail(t), Append(acc, v.val))
        ELSE IF Head(t) = "]" THEN JOk(JNode("arr", 0, <<>>, Append(acc, v.val)), Tail(t))
        ELSE JFail

\* the members of an object after '{', acc the ones decoded so far
JsonMembers(s, acc) ==
    LET s1 == LStrip(s)
        k == IF s1 # <<>> /\ Head(s1) = "\"" THEN JsonString(Tail(s1)) ELSE JFail
        t == LStrip(k.rest)
        v == IF k.ok /\ t # <<>> /\ Head(t) = ":" THEN JsonValue(Tail(t)) ELSE JFail
        u == LStrip(v.rest)
        m == Append(acc, <<k.val.s, v.val>>)
    IN  IF ~v.ok \/ u = <<>> THEN JFail
        ELSE IF Head(u) = "," THEN JsonMembers(Tail(u), m)
        ELSE IF Head(u) = "}" THEN JOk(JNode("obj", 0, <<>>, m), Tail(u))
        ELSE JFail

\* json.loads(s): one value and nothing but whitespace after it; ok is FALSE for
\* json.JSONDecodeError
JsonLoads(s) ==
    LET v == JsonValue(s)
    IN  IF v.ok /\ LStrip(v.rest) = <<>> THEN [ok |-> TRUE, val |-> v.val]
        ELSE [ok |-> FALSE, val |-> JFail.val]

\* An Element: its tag, its text (what precedes the first child) and its children
XNode(tag, text, children) == [tag |-> tag, text |-> text, children |-> children]

XFail == [ok |-> FALSE, val |-> XNode(<<>>, <<>>, <<>>), rest |-> <<>>]

XOk(val, rest) == [ok |-> TRUE, val |-> val, rest |-> rest]

\* the characters of a tag name (lower-case letters; other names are not modelled)
Letters ==
    {"a", "b", "c", "d", "e", "f", "g", "h", "i", "j", "k", "l", "m", "n", "o", "p",
     "q", "r", "s", "t", "u", "v", "w", "x", "y", "z"}

\* the predefined entities of XML
XmlEntities ==
    {<<<<"&", "a", "m", "p", ";">>, "&">>, <<<<"&", "l", "t", ";">>, "<">>,
     <<<<"&", "g", "t", ";">>, ">">>, <<<<"&", "q", "u", "o", "t", ";">>, "\"">>,
     <<<<"&", "a", "p", "o", "s", ";">>, "'">>}

RECURSIVE XmlElement(_)
RECURSIVE XmlContent(_, _, _, _)

\* an element at the head of s: '<name/>' or '<name>' content '</name>'
\* (attributes are not modelled; no body of ApiBodies holds one)
XmlElement(s) ==
    IF s = <<>> \/ Head(s) # "<" THEN XFail
    ELSE LET n == RunLen(Tail(s), Letters)
             name == SubSeq(s, 2, n + 1)
             after == SubSeq(s, n + 2, Len(s))
         IN  IF n = 0 THEN XFail
             ELSE IF StartsWith(after, <<"/", ">">>)
             THEN XOk(XNode(name, <<>>, <<>>), SubSeq(after, 3, Len(after)))
             ELSE IF StartsWith(after, <<">">>)
             THEN XmlContent(Tail(after), name, <<>>, <<>>)
             ELSE XFail

\* the content of the element tag up to its end tag, text and children being what
\* was read so far
XmlContent(s, tag, text, children) ==
    IF s = <<>> THEN XFail
    ELSE IF StartsWith(s, <<"<", "/">>)
    THEN LET end == <<"<", "/">> \o tag \o <<">">>
         IN  IF StartsWith(s, end)
             THEN XOk(XNode(tag, text, children), SubSeq(s, Len(end) + 1, Len(s)))
             ELSE XFail
    ELSE IF Head(s) = "<"
    THEN LET child == XmlElement(s)
         IN  IF child.ok
             THEN XmlContent(child.rest, tag, text, Append(children, child.val))
             ELSE XFail
    ELSE IF Head(s) = "&"
    THEN IF \E e \in XmlEntities : StartsWith(s, e[1])
         THEN LET e == CHOOSE x \in XmlEntities : StartsWith(s, x[1])
              IN  XmlContent(SubSeq(s, Len(e[1]) + 1, Len(s)), tag,
                             IF children = <<>> THEN Append(text, e[2]) ELSE text,
                             children)
         ELSE XFail
    ELSE XmlContent(Tail(s), tag,
                    IF children = <<>> THEN Append(text, Head(s)) ELSE text, children)

\* '<?xml version="1.0" encoding="'
XmlDeclStart ==
    <<"<", "?", "x", "m", "l", " ", "v", "e", "r", "s", "i", "o", "n", "=", "\"",
      "1", ".", "0", "\"", " ", "e", "n", "c", "o", "d", "i", "n", "g", "=", "\"">>

\* the encoding names the parser has a decoder for (of the names the bodies use)
XmlEncodings == {<<"u", "t", "f", "-", "8">>}

\* the document element of s and nothing but whitespace after it
XmlDocument(s) ==
    LET e == XmlElement(LStrip(s))
    IN  IF e.ok /\ LStrip(e.rest) = <<>>
        THEN [outcome |-> "tree", val |-> e.val]
        ELSE [outcome |-> "ParseError", val |-> XFail.val]

\* ET.fromstring(s.encode('utf-8')).  The bodies are ASCII, so the bytes are the
\* characters.  A declaration naming an encoding makes the parser look up a
\* decoder for it: for a name it does not know that lookup raises LookupError,
\* which is not a ParseError.
XmlFromString(s) ==
    IF StartsWith(s, XmlDeclStart)
    THEN LET t == SubSeq(s, Len(XmlDeclStart) + 1, Len(s))
             q == IndexOf(t, "\"")
             after == SubSeq(t, q + 1, Len(t))
         IN  IF q = 0 \/ ~StartsWith(after, <<"?", ">">>)
             THEN [outcome |-> "ParseError", val |-> XFail.val]
             ELSE IF SubSeq(t, 1, q - 1) \notin XmlEncodings
             THEN [outcome |-> "LookupError", val |-> XFail.val]
             ELSE XmlDocument(SubSeq(after, 3, Len(after)))
    ELSE XmlDocument(s)

\* response.headers.get('Content-Type', '')
ContentType(r) == IF r.ctype = None THEN <<>> ELSE r.ctype[1]

\* lines 103-117 (and 126-140): what make_request does with the success response r
Decode(r) ==
    LET unescaped_text == Unescape(r.text)
        content_type == ContentType(r)
        j == JsonLoads(unescaped_text)
        x == XmlFromString(unescaped_text)
    IN  IF Contains(<<"j", "s", "o", "n">>, content_type)
        THEN IF j.ok THEN Returned(Value("json", j.val))
             ELSE Returned(Value("text", unescaped_text))
        ELSE IF Contains(<<"x", "m", "l">>, content_type)
        THEN IF x.outcome = "tree" THEN Returned(Value("xml", x.val))
             ELSE IF x.outcome = "ParseError" THEN Returned(Value("text", unescaped_text))
             ELSE RawError(x.outcome)
        ELSE Returned(Value("text", unescaped_text))

\* Decode, worked out once for each success response the service can give
Decoded == [r \in {x \in DecodeResponses : x.status = "ok"} |-> Decode(r)]

-----------------------------------------------------------------------------
(* The state machine *)

\* the client as constructed (lines 20-26, 155), no call made yet
Fresh ==
    /\ sid = None
    /\ auth = None
    /\ token = None
    /\ pc = "idle"
    /\ ctx = "ensure"
    /\ call = NoCall
    /\ log = <<>>
    /\ pre = <<None, None, None>>
    /\ prev = "none"
    /\ result = NoResult

Init == Fresh /\ pending = 0

\* the call in progress ends with outcome r
Finish(r) ==
    /\ pc' = "done"
    /\ result' = r

\* A tool is invoked with the integer-typed arguments intargs: it validates and
\* marshals its arguments (m is what the tool computed) and, unless it raised,
\* enters make_request at line 72.  When calls were issued together, this is one
\* of them starting.
Invoke(tool, intargs, m) ==
    /\ pc = "idle"
    /\ pre' = <<sid, auth, token>>
    /\ call' = [tool |-> tool, intargs |-> intargs, given |-> m.kwargs,
                method |-> m.method, endpoint |-> m.endpoint,
                url |-> ResolveUrl(m.endpoint, m.use_api_0_path, m.full_url),
                kwargs |-> m.kwargs]
    /\ IF m.raised
       THEN Finish(m.error)
       ELSE pc' = "ensure" /\ UNCHANGED result
    /\ pending' = IF pending > 0 THEN pending - 1 ELSE 0
    /\ UNCHANGED <<sid, auth, token, ctx, log, prev>>

\* The outcome goes back to the invoking runtime; the locals of the call are gone
\* and only the client's attributes live on.
Deliver ==
    /\ pc = "done"
    /\ pc' = "idle"
    /\ prev' = Outcome(result)
    /\ result' = NoResult
    /\ call' = NoCall
    /\ log' = <<>>
    /\ ctx' = "ensure"
    /\ pre' = <<None, None, None>>
    /\ UNCHANGED <<sid, auth, token, pending>>

\* ensure_authenticated, lines 65-68 (and the test of line 51 when it calls _get_token)
EnsureAuthenticated ==
    /\ pc = "ensure"
    /\ pc' = EnsureEntry(token, auth)
    /\ UNCHANGED <<sid, auth, token, ctx, call, log, pre, prev, result, pending>>

\* _login, lines 31-47, with the login endpoint answering r
Login(r) ==
    /\ pc = "login"
    /\ log' = Append(log, Exchange(LoginRequest, r))
    /\ IF r.status # "ok"
       THEN /\ Finish(WrappedError("Login failed", Cause(r)))
            /\ UNCHANGED <<sid, auth>>
       ELSE IF LoginSid(r.text) = None
       THEN /\ Finish(WrappedError("Failed to parse login response", "IndexError"))
            /\ UNCHANGED <<sid, auth>>
       ELSE IF LoginAuth(r.text) = None
       THEN /\ sid' = LoginSid(r.text)
            /\ Finish(WrappedError("Failed to parse login response", "IndexError"))
            /\ UNCHANGED auth
       ELSE /\ sid' = LoginSid(r.text)
            /\ auth' = LoginAuth(r.text)
            /\ pc' = "token"
            /\ UNCHANGED result
    /\ UNCHANGED <<token, ctx, call, pre, prev, pending>>

\* _get_token, lines 54-63, with the token endpoint answering r
TokenExchange(r) ==
    /\ pc = "token"
    /\ log' = Append(log, Exchange(TokenRequest(auth), r))
    /\ IF r.status # "ok"
       THEN /\ Finish(WrappedError("Failed to get token", Cause(r)))
            /\ UNCHANGED token
       ELSE /\ token' = TokenOf(r.text)
            /\ pc' = IF ctx = "ensure" THEN "send" ELSE "resend"
            /\ UNCHANGED result
    /\ UNCHANGED <<sid, auth, ctx, call, pre, prev, pending>>

\* make_request, lines 74-119 and 142-143: the first attempt, answered by r.
\* What Decode raises is no RequestException, so line 118 does not catch it.
Send(r) ==
    /\ pc = "send"
    /\ IF call.url = None
       THEN /\ Finish(ValueError("Either 'endpoint' or 'full_url' must be provided."))
            /\ UNCHANGED <<call, log, ctx>>
       ELSE LET kw == Decorate(call.kwargs, sid, auth, token)
            IN  /\ call' = [call EXCEPT !.kwargs = kw]
                /\ log' = Append(log, Exchange(ApiRequest(call.method, call.url[1], kw), r))
                /\ IF r.status = "ok"
                   THEN Finish(Decoded[r]) /\ UNCHANGED ctx
                   ELSE IF ShouldRetry(r)
                   THEN /\ ctx' = "retry"
                        /\ pc' = GetTokenEntry(auth)
                        /\ UNCHANGED result
                   ELSE /\ Finish(RequestError(call.endpoint, Cause(r)))
                        /\ UNCHANGED ctx
    /\ UNCHANGED <<sid, auth, token, pre, prev, pending>>

\* make_request, lines 122-140: the one resend, answered by r.  It runs inside
\* the except clause of line 118, so what it raises is not caught there.
Resend(r) ==
    /\ pc = "resend"
    /\ LET kw == Refresh(call.kwargs, token)
       IN  /\ call' = [call EXCEPT !.kwargs = kw]
           /\ log' = Append(log, Exchange(ApiRequest(call.method, call.url[1], kw), r))
    /\ IF r.status = "ok"
       THEN Finish(Decoded[r])
       ELSE Finish(RawError(Cause(r)))
    /\ UNCHANGED <<sid, auth, token, ctx, pre, prev, pending>>

\* argument values the invoking runtime may pass
CountArgs == {IntArg(5), StrArg(<<"2", "0">>), StrArg(<<"a", "b", "c">>)}
TimeArgs == {IntArg(0), StrArg(<<" ", "7">>), StrArg(<<"1", ".", "5">>)}
OptTimeArgs == {NoneArg, StrArg(<<"-", "3">>), StrArg(<<>>)}
OptStrArgs == {None, Some("v")}

Call_add_subscription ==
    \E folder \in OptStrArgs : Invoke("add_subscription", <<>>, add_subscription("example.com/feed", folder, None))

Call_get_subscription_list ==
    \E f \in {"json", "xml"} : Invoke("get_subscription_list", <<>>, get_subscription_list(f))

Call_get_user_info == Invoke("get_user_info", <<>>, get_user_info)

Call_mark_feed_as_read ==
    \E ts \in TimeArgs : Invoke("mark_feed_as_read", <<ts>>, mark_feed_as_read("example.com/feed", ts))

Call_mark_folder_as_read ==
    \E ts \in TimeArgs : Invoke("mark_folder_as_read", <<ts>>, mark_folder_as_read("News", ts))

Call_set_tag_sharing ==
    \E pub \in BOOLEAN : Invoke("set_tag_sharing", <<>>, set_tag_sharing("News", pub))

Call_get_all_entries ==
    \E count \in CountArgs, newer \in OptTimeArgs, older \in OptTimeArgs :
        Invoke("get_all_entries", <<count, newer, older>>,
               get_all_entries(count, None, newer, older, None, None, "json"))

Call_get_starred_articles ==
    \E count \in CountArgs : Invoke("get_starred_articles", <<count>>, get_starred_articles(count, "json"))

Call_parse_feed_url ==
    \E count \in CountArgs, xt \in OptStrArgs :
        Invoke("parse_feed_url", <<count>>, parse_feed_url("example.com/feed", count, xt))

Call_freshapi_get_stream_item_ids ==
    \E count \in CountArgs, start \in OptTimeArgs, stop \in OptTimeArgs :
        Invoke("freshapi_get_stream_item_ids", <<count, start, stop>>,
               freshapi_get_stream_item_ids("feed/5", count, None, None, None,
                                            start, stop, None))

Call_get_shared_entries ==
    \E count \in CountArgs : Invoke("get_shared_entries", <<count>>, get_shared_entries(count))

Call_search_greader_categories == Invoke("search_greader_categories", <<>>, search_greader_categories("news"))

Call_get_item_contents == Invoke("get_item_contents", <<>>, get_item_contents(<<"item/1">>, "json"))

DoLogin == \E r \in LoginResponses : Login(r)
DoTokenExchange == \E r \in TokenResponses : TokenExchange(r)
DoSend == \E r \in ApiResponses : Send(r)
DoResend == \E r \in ApiResponses : Resend(r)

Next ==
    \/ Call_add_subscription
    \/ Call_get_subscription_list
    \/ Call_get_user_info
    \/ Call_mark_feed_as_read
    \/ Call_mark_folder_as_read
    \/ Call_set_tag_sharing
    \/ Call_get_all_entries
    \/ Call_get_starred_articles
    \/ Call_parse_feed_url
    \/ Call_freshapi_get_stream_item_ids
    \/ Call_get_shared_entries
    \/ Call_search_greader_categories
    \/ Call_get_item_contents
    \/ Deliver
    \/ EnsureAuthenticated
    \/ DoLogin
    \/ DoTokenExchange
    \/ DoSend
    \/ DoResend

Spec == Init /\ [][Next]_vars

\* a call is between its entry into make_request and its return or raise
InCall == pc \notin {"idle", "done"}

\* the steps of a call in progress
Step == EnsureAuthenticated \/ DoLogin \/ DoTokenExchange \/ DoSend \/ DoResend

\* A call in progress is straight-line blocking code: once entered, it takes its
\* next step as soon as the HTTP exchange it waits for has been answered or has
\* failed.  Whether another tool is ever invoked is left open.
FairSpec == Spec /\ WF_vars(Step)

\* The same client with the service answering an API request with any response
\* of DecodeResponses, under calls of one tool (what make_request does with a
\* response does not depend on the tool).
DoSendDecode == \E r \in DecodeResponses : Send(r)
DoResendDecode == \E r \in DecodeResponses : Resend(r)

NextDecode ==
    \/ Call_get_subscription_list
    \/ Deliver
    \/ EnsureAuthenticated
    \/ DoLogin
    \/ DoTokenExchange
    \/ DoSendDecode
    \/ DoResendDecode

DecodeSpec == Init /\ [][NextDecode]_vars

\* Calls issued concurrently.  The tools are coroutines (async def, lines 157-158,
\* 199-200) whose bodies hold no await and whose HTTP calls block, so the event
\* loop runs a started call to its end before it starts another: the calls
\* issued together run one after the other, in any order, on the one client of
\* line 155.
MaxBatch == 2

\* two or more calls are issued together against the client as constructed
ConcurrentInit == Fresh /\ pending \in 2..MaxBatch

\* The call in progress has returned or raised and the event loop goes on to the
\* next one; log keeps the exchanges of all the calls issued together.
Yield ==
    /\ pc = "done"
    /\ pc' = "idle"
    /\ prev' = Outcome(result)
    /\ result' = NoResult
    /\ call' = NoCall
    /\ ctx' = "ensure"
    /\ pre' = <<None, None, None>>
    /\ UNCHANGED <<sid, auth, token, log, pending>>

Start_add_subscription ==
    pending > 0 /\ Invoke("add_subscription", <<>>, add_subscription("example.com/feed", None, None))
Start_get_user_info == pending > 0 /\ Call_get_user_info

NextConcurrent ==
    \/ Start_add_subscription
    \/ Start_get_user_info
    \/ Yield
    \/ EnsureAuthenticated
    \/ DoLogin
    \/ DoTokenExchange
    \/ DoSend
    \/ DoResend

ConcurrentSpec == ConcurrentInit /\ [][NextConcurrent]_vars

-----------------------------------------------------------------------------
(* Reading the log of the call in progress *)

Session == <<sid, auth, token>>

Last(seq) == seq[Len(seq)]

ApiIndexes == {i \in 1..Len(log) : log[i].kind = "api"}

\* position of the first attempt in the log (0 when nothing was sent yet)
FirstApi ==
    IF ApiIndexes = {} THEN 0
    ELSE CHOOSE i \in ApiIndexes : \A j \in ApiIndexes : i <= j

\* the exchanges that came after the first attempt: the retry path
AfterFirst == IF FirstApi = 0 THEN <<>> ELSE SubSeq(log, FirstApi + 1, Len(log))

CountKind(seq, k) == Cardinality({i \in 1..Len(seq) : seq[i].kind = k})

Kinds(seq) == [i \in 1..Len(seq) |-> seq[i].kind]

\* the first attempt's response carries the expiry signal
FirstSignalsExpiry == FirstApi # 0 /\ log[FirstApi].resp.badToken = "true"

\* the first attempt failed with an HTTP error status carrying the expiry signal
FirstExpired == FirstSignalsExpiry /\ log[FirstApi].resp.status = "error"

-----------------------------------------------------------------------------
(* Claims *)

\* C1: whenever make_request has sent a decorated request (first attempt or
\* resend), the session identifier, the auth secret and the access token it was
\* sent with are set and non-empty; and a call whose first-use authentication
\* failed has sent no decorated request.
C1_SentWithNonEmptyArtifacts ==
    /\ \A i \in ApiIndexes :
          /\ Truthy(log[i].cookies["SID"])
          /\ Truthy(log[i].params["T"])
          /\ log[i].headers["Authorization"] \notin {AuthHeader(None), AuthHeader(Some(<<>>))}
    /\ (pc = "done" /\ ctx = "ensure" /\ Outcome(result) = "AuthenticationError")
          => ApiIndexes = {}

\* C2 as stated: at most one refresh and one resend per call, and when the first
\* attempt's response carries the expiry header, exactly one token exchange is
\* issued and the request is resent exactly once with the new token in T.
C2_ExactlyOneRefreshAndResend ==
    /\ CountKind(AfterFirst, "token") <= 1
    /\ CountKind(AfterFirst, "api") <= 1
    /\ (pc = "done" /\ FirstSignalsExpiry)
          => /\ CountKind(AfterFirst, "token") = 1
             /\ CountKind(AfterFirst, "api") = 1
             /\ Last(log).kind = "api"
             /\ Last(log).params["T"] = token

\* C2 amended: after its first attempt a call issues at most one token exchange
\* and at most one resend, and at most six requests in all (no retry loop).  A
\* finished call went into the retry path exactly when its first attempt failed
\* with an HTTP error status carrying the expiry header; it then either ended in
\* an authentication error with nothing resent, or issued exactly one token
\* exchange followed by exactly one resend carrying the new token in T.
\* (the state part; the claim's formula follows it)
C2_RetryBounds ==
    /\ CountKind(AfterFirst, "token") <= 1
    /\ CountKind(AfterFirst, "api") <= 1
    /\ Len(log) <= 6
    /\ (pc = "done" /\ ~FirstExpired) => AfterFirst = <<>>
    /\ (pc = "done" /\ FirstExpired)
          => \/ /\ Outcome(result) = "AuthenticationError"
                /\ CountKind(AfterFirst, "api") = 0
             \/ /\ Outcome(result) # "AuthenticationError"
                /\ CountKind(AfterFirst, "token") = 1
                /\ log[Len(log) - 1].kind = "token"
                /\ log[Len(log) - 1].resp.status = "ok"
                /\ Last(log).kind = "api"
                /\ Last(log).params["T"] = token
                /\ token = TokenOf(log[Len(log) - 1].resp.text)

\* C2 amended, continued: the bounds above hold throughout, and every call that
\* entered make_request finishes (each HTTP exchange being answered or failing).
C2_AtMostOneRefreshAndResend == []C2_RetryBounds /\ (InCall ~> (pc = "done"))

\* C2 witness: a call finished by a successful resend after one refresh
C2_Witness ==
    /\ pc = "done"
    /\ FirstExpired
    /\ Kinds(AfterFirst) = <<"token", "api">>
    /\ Outcome(result) = "return"
    /\ Last(log).params["T"] # log[FirstApi].params["T"]

\* C3: when the resend after a token refresh fails too, the call fails with the
\* RequestError of a non-retried failure: the wrapped error carrying the endpoint
\* name and the underlying cause.
C3_FailedResendIsRequestError ==
    (pc = "done" /\ CountKind(AfterFirst, "api") = 1 /\ Last(log).resp.status # "ok")
       => /\ Outcome(result) = "RequestError"
          /\ result = RequestError(call.endpoint, Cause(Last(log).resp))

\* C4: a first attempt that fails at transport level, or with an HTTP error whose
\* response lacks X-Reader-Google-Bad-Token: true, ends the call with RequestError
\* (endpoint and cause), with no token exchange, no resend, and sid, auth and
\* token left as they were.
C4_RetryGatedOnSignal ==
    [][(/\ pc = "send"
        /\ Len(log') = Len(log) + 1
        /\ Last(log').resp.status # "ok"
        /\ ~(Last(log').resp.status = "error" /\ Last(log').resp.badToken = "true"))
       => /\ pc' = "done"
          /\ result' = RequestError(call.endpoint, Cause(Last(log').resp))
          /\ Outcome(result') = "RequestError"
          /\ Last(log').kind = "api"
          /\ UNCHANGED <<sid, auth, token>>]_vars

\* C4 witness: a call ended by an HTTP error whose header is present but not 'true'
C4_Witness ==
    /\ pc = "done"
    /\ FirstApi # 0
    /\ FirstApi = Len(log)
    /\ Last(log).resp.status = "error"
    /\ Last(log).resp.badToken = "false"
    /\ Outcome(result) = "RequestError"
    /\ Session = <<log[FirstApi].cookies["SID"], auth, log[FirstApi].params["T"]>>

\* C5: the retry path never logs in: no request goes to the login endpoint after
\* the first attempt, and sid and auth stay what the first attempt was sent with.
C5_RetryNeverLogsIn ==
    /\ CountKind(AfterFirst, "login") = 0
    /\ FirstApi # 0 => /\ sid = log[FirstApi].cookies["SID"]
                       /\ log[FirstApi].headers["Authorization"] = AuthHeader(auth)

\* C6: a fresh client that gets to send has issued exactly one login call and
\* one token exchange, both answered with success, and holds sid, auth and token
\* (non-empty when the server supplied non-empty values); once a token is cached,
\* ensure_authenticated issues nothing and changes nothing, and a call that then
\* succeeds on its first attempt consists of that one request and leaves sid,
\* auth and token as they were.
C6_AuthenticateOnceThenIdempotent ==
    /\ (pc = "send" /\ pre = <<None, None, None>>)
          => /\ Kinds(log) = <<"login", "token">>
             /\ log[1].resp.status = "ok" /\ log[2].resp.status = "ok"
             /\ sid # None /\ auth # None /\ token # None
             /\ Session = <<LoginSid(log[1].resp.text), LoginAuth(log[1].resp.text),
                            TokenOf(log[2].resp.text)>>
             /\ log[2].headers["Authorization"] = AuthHeader(auth)
    /\ (pc = "send" /\ Truthy(pre[3])) => (log = <<>> /\ Session = pre)
    /\ (pc = "done" /\ Truthy(pre[3]) /\ FirstApi # 0 /\ log[FirstApi].resp.status = "ok")
          => (Kinds(log) = <<"api">> /\ Session = pre)

\* C6 witness: a later call, after a successful one, finished by its first attempt
\* alone on the cached artifacts
C6_Witness ==
    /\ pc = "done"
    /\ prev = "return"
    /\ Truthy(pre[1]) /\ Truthy(pre[2]) /\ Truthy(pre[3])
    /\ Kinds(log) = <<"api">>
    /\ Outcome(result) = "return"
    /\ Session = pre

\* the parameters the tool passed to make_request
GivenParams == KwGet(call.given, "params")

\* C7 as stated: every request make_request sends carries Authorization =
\* 'GoogleLogin auth=<auth>', cookie SID = <sid>, T = <token> and client = the
\* fixed identifier, all forced over what the caller supplied, the caller's other
\* parameters passed through unchanged.
C7_AllFourForced ==
    (log # <<>> /\ Last(log).kind = "api")
       => /\ Last(log).headers["Authorization"] = AuthHeader(auth)
          /\ Last(log).cookies["SID"] = sid
          /\ Last(log).params["T"] = token
          /\ Last(log).params["client"] = "fastmcp-server"
          /\ \A k \in DOMAIN GivenParams \ {"T", "client"} :
                Last(log).params[k] = GivenParams[k]

\* C7 amended: every request make_request sends carries T = the client's current
\* token; Authorization = 'GoogleLogin auth=<auth>' and cookie SID = <sid> for
\* the auth and sid the client held when the first attempt was built (the resend
\* reuses the first attempt's header and cookie); client = the fixed identifier
\* only when the caller supplied no client parameter, otherwise the caller's
\* value; every other caller-supplied parameter, and the form data, unchanged.
C7_ClientIsOnlyADefault ==
    (log # <<>> /\ Last(log).kind = "api")
       => /\ Last(log).params["T"] = token
          /\ Len(log) = FirstApi
                => /\ Last(log).headers["Authorization"] = AuthHeader(auth)
                   /\ Last(log).cookies["SID"] = sid
          /\ Last(log).headers = log[FirstApi].headers
          /\ Last(log).cookies = log[FirstApi].cookies
          /\ DOMAIN Last(log).headers = {"Authorization"}
          /\ DOMAIN Last(log).cookies = {"SID"}
          /\ Last(log).params["client"] =
                IF "client" \in DOMAIN GivenParams THEN GivenParams["client"]
                ELSE "fastmcp-server"
          /\ DOMAIN Last(log).params = DOMAIN GivenParams \cup {"T", "client"}
          /\ \A k \in DOMAIN GivenParams \ {"T"} : Last(log).params[k] = GivenParams[k]
          /\ Last(log).data = KwGet(call.given, "data")

\* C7 witness: set_tag_sharing's request went out with client=settings
C7_Witness ==
    /\ log # <<>>
    /\ Last(log).kind = "api"
    /\ call.tool = "set_tag_sharing"
    /\ Last(log).params["client"] = "settings"
    /\ Last(log).params["T"] = token
    /\ Truthy(token)

\* C8 as stated: the call that follows one that failed with an authentication
\* error issues a login call and then a token exchange before it sends its request.
C8_NextCallStartsFromScratch ==
    (pc = "send" /\ prev = "AuthenticationError") => Kinds(log) = <<"login", "token">>

\* C8 amended: the call that follows one that failed with an authentication error
\* re-establishes only what the cache lacks: nothing when a non-empty token is
\* cached (a failed refresh in the retry path keeps the old token), a token
\* exchange alone on the cached auth secret when a non-empty auth secret is
\* cached (a failed first token exchange keeps sid and auth), and a login
\* followed by a token exchange only when no auth secret is cached.
C8_NextCallReauthenticatesWhatIsMissing ==
    (pc = "send" /\ prev = "AuthenticationError")
       => IF Truthy(pre[3])
          THEN log = <<>> /\ Session = pre
          ELSE IF Truthy(pre[2])
          THEN /\ Kinds(log) = <<"token">>
               /\ log[1].headers["Authorization"] = AuthHeader(pre[2])
               /\ <<sid, auth>> = <<pre[1], pre[2]>>
          ELSE Kinds(log) = <<"login", "token">>

\* C8 witness: after a failed token exchange the next call reached its first
\* attempt with a token exchange alone
C8_Witness ==
    /\ pc = "send"
    /\ prev = "AuthenticationError"
    /\ pre[3] = None
    /\ Kinds(log) = <<"token">>
    /\ <<sid, auth>> = <<pre[1], pre[2]>>

\* the login body holds neither a line starting with SID= nor one starting with Auth=
NeitherLine(text) ==
    /\ LinesWith(LoginLines(text), SID_EQ) = <<>>
    /\ LinesWith(LoginLines(text), AUTH_EQ) = <<>>

\* C9: when the login endpoint answers with a success status and a body holding
\* neither a SID= nor an Auth= line, the call ends there with the parse error (an
\* authentication error): sid, auth and token are left as they were (unset on a
\* client that had none) and no token exchange or API request follows.
C9_LoginWithNeitherLineFails ==
    [][(/\ pc = "login"
        /\ Len(log') = Len(log) + 1
        /\ Last(log').resp.status = "ok"
        /\ NeitherLine(Last(log').resp.text))
       => /\ pc' = "done"
          /\ Last(log').kind = "login"
          /\ result' = WrappedError("Failed to parse login response", "IndexError")
          /\ Outcome(result') = "AuthenticationError"
          /\ UNCHANGED <<sid, auth, token>>
          /\ ~Truthy(auth')
          /\ ctx = "ensure" => (Kinds(log') = <<"login">> /\ Session' = pre /\ ~Truthy(token'))
          /\ pre = <<None, None, None>> /\ ctx = "ensure"
                => Session' = <<None, None, None>>]_vars

\* C9 witness: a fresh client's call ended by a login answered with neither line
C9_Witness ==
    /\ pc = "done"
    /\ Kinds(log) = <<"login">>
    /\ log[1].resp.status = "ok"
    /\ log[1].resp.text = BodyNeither
    /\ result = WrappedError("Failed to parse login response", "IndexError")
    /\ Session = <<None, None, None>>

\* a supplied value that does not parse as an integer
NotAnInteger(a) == a.t = "str" /\ ~IntOfStr(a.s).ok

\* C10: a tool call that was given a value not parsing as an integer for one of
\* its integer-typed arguments has failed with the argument error without any
\* request (login, token exchange or API) and with sid, auth and token as they
\* were before the call.
C10_BadIntegerFailsBeforeNetwork ==
    (pc # "idle" /\ \E i \in 1..Len(call.intargs) : NotAnInteger(call.intargs[i]))
       => /\ pc = "done"
          /\ Outcome(result) = "ValueError"
          /\ log = <<>>
          /\ Session = pre

\* C10 witness: get_all_entries on a fresh client, count fine, older_than not a number
C10_Witness ==
    /\ pc = "done"
    /\ call.tool = "get_all_entries"
    /\ ~NotAnInteger(call.intargs[1])
    /\ ~NotAnInteger(call.intargs[2])
    /\ NotAnInteger(call.intargs[3])
    /\ Outcome(result) = "ValueError"
    /\ log = <<>>
    /\ Session = <<None, None, None>>

\* the success response that ended the call, if one did
DecodedResponse == pc = "done" /\ log # <<>> /\ Last(log).kind = "api" /\ Last(log).resp.status = "ok"

\* C11: a call whose request (first attempt or resend) was answered with a
\* success status returns, whatever the body: with U the HTML-unescaped body, it
\* returns the JSON value of U when the content type contains 'json' and U is
\* JSON, the XML tree of U when the content type contains 'xml' and U parses, and
\* U itself in every other case.
C11_BodyNeverFatal ==
    DecodedResponse
       => LET r == Last(log).resp
              U == Unescape(r.text)
              isJson == Contains(<<"j", "s", "o", "n">>, ContentType(r))
              isXml == ~isJson /\ Contains(<<"x", "m", "l">>, ContentType(r))
          IN  /\ Outcome(result) = "return"
              /\ IF isJson /\ JsonLoads(U).ok
                 THEN result.value.kind = "json" /\ result.value.v = JsonLoads(U).val
                 ELSE IF isXml /\ XmlFromString(U).outcome = "tree"
                 THEN result.value.kind = "xml" /\ result.value.v = XmlFromString(U).val
                 ELSE result.value.kind = "text" /\ result.value.v = U

\* C13: a login attempt (whatever the login endpoint answers) leaves sid and auth
\* either both set or both unset, and a login that fails (HTTP error, transport
\* error, or a body lacking the SID= or the Auth= line) leaves sid, auth and token
\* as they were before it.
C13_LoginIsAtomic ==
    [][(pc = "login" /\ Len(log') = Len(log) + 1)
       => /\ (sid' = None) <=> (auth' = None)
          /\ pc' = "done" => UNCHANGED <<sid, auth, token>>]_vars

LoginIndexes == {i \in 1..Len(log) : log[i].kind = "login"}

TokenIndexes == {i \in 1..Len(log) : log[i].kind = "token"}

\* all the calls issued together have finished
BatchDone == pending = 0 /\ pc \in {"idle", "done"}

\* C12: of two or more calls issued concurrently against a fresh client, exactly
\* one login call and one token exchange are issued in all (never more than one
\* of each, and one of each once all the calls have finished), and every request
\* the calls send carries the sid and auth of that login and the token of that
\* token exchange.
C12_AuthenticatedOnce ==
    /\ Cardinality(LoginIndexes) <= 1
    /\ Cardinality(TokenIndexes) <= 1
    /\ BatchDone => (Cardinality(LoginIndexes) = 1 /\ Cardinality(TokenIndexes) = 1)
    /\ \A i \in ApiIndexes :
          /\ \E l \in LoginIndexes :
                /\ l < i
                /\ log[i].cookies["SID"] = LoginSid(log[l].resp.text)
                /\ log[i].headers["Authorization"] = AuthHeader(LoginAuth(log[l].resp.text))
          /\ \E t \in TokenIndexes :
                /\ t < i
                /\ log[i].params["T"] = TokenOf(log[t].resp.text)

=============================================================================
